---- MODULE Spec2Model ----
(***************************************************************************)
(* Model of consul.Stub (src/consul/consul_stub.go): the in-memory fake    *)
(* service registry of marathon-consul.  The state is the Stub struct; one *)
(* action per exported method.  Every method runs under the Stub's lock    *)
(* from its first to its last statement (the Fail* setters take no lock),  *)
(* so in the sequential specification Spec each call is one atomic step;   *)
(* the specification ConcSpec further down runs the same methods on        *)
(* several goroutines, one step per lock operation and per store.  The     *)
(* record `last` holds the most recent call: its name, argument, returned  *)
(* error and returned value (or, for a mutation, the value of the local    *)
(* slice it iterated over), and how the call follows the one before it.    *)
(*                                                                         *)
(* Slices that the code builds by ranging over the map c.services have an  *)
(* unspecified order in Go; they are modelled as bags (multiplicity kept,  *)
(* order dropped).  Slices that come from ordered data are sequences.      *)
(***************************************************************************)
EXTENDS Bags, FiniteSets, Integers, Sequences, TLC

VARIABLES
    services,                   \* map[service.ID]*AgentServiceRegistration
    failGetServicesForNames,    \* map[string]bool, as its key set
    failRegisterForIDs,         \* map[apps.TaskID]bool
    failDeregisterByTaskForIDs, \* map[apps.TaskID]bool
    failDeregisterForIDs,       \* map[service.ID]bool
    consul,                     \* *Consul: its config (Tag, ConsulNameSeparator)
    last,                       \* the most recent call and what it returned
    aborted,                    \* a call panicked: the goroutine is gone
    mu,                         \* the embedded sync.RWMutex: its holders
    threads                     \* each calling goroutine: its call in progress

vars == <<services, failGetServicesForNames, failRegisterForIDs,
          failDeregisterByTaskForIDs, failDeregisterForIDs, consul, last, aborted,
          mu, threads>>

failSets == <<failGetServicesForNames, failRegisterForIDs,
              failDeregisterByTaskForIDs, failDeregisterForIDs>>

(***************************************************************************)
(* Bounds and input universes.                                             *)
(***************************************************************************)
\* At most this many keys are flagged over the four failure sets together.
MaxFlags == 2

TaskIDs == {"t1", "t2"}
GoodHost == "10.0.0.1"
BadHost == "no.such.host"
T1 == [ID |-> "t1", Host |-> GoodHost]
T1Lost == [ID |-> "t1", Host |-> BadHost]
T2 == [ID |-> "t2", Host |-> GoodHost]
Names == {"web", "api"}
ConfigTags == {"marathon"}

WebOwned == [Name |-> "web", Port |-> 80, Tags |-> <<"marathon">>]
WebBare == [Name |-> "web", Port |-> 80, Tags |-> <<>>]
ApiForeign == [Name |-> "api", Port |-> 81, Tags |-> <<"marathon-task:t2">>]
\* An app is the list of registration intents it yields.
NoIntents == [Intents |-> <<>>]
OneIntent == [Intents |-> <<WebOwned>>]
TwoIntents == [Intents |-> <<WebBare, ApiForeign>>]
Apps == {NoIntents, OneIntent, TwoIntents}

\* The (task, app) pairs the registration methods are called with.
RegisterArgs ==
    {[task |-> T1, app |-> a] : a \in Apps}
      \cup {[task |-> T1Lost, app |-> TwoIntents], [task |-> T2, app |-> OneIntent]}

NoErr == "nil"
HostErr == "could not resolve host"
IndexPanic == "panic: runtime error: index out of range"

(***************************************************************************)
(* Collaborators of the Stub whose code is in other packages.              *)
(***************************************************************************)
\* contains(slice, search): exact string membership in a slice.
contains(slice, search) == \E i \in 1..Len(slice) : slice[i] = search

\* service.MarathonTaskTag: the tag that links an entry to its task.
MarathonTaskTag(taskID) == "marathon-task:" \o taskID

\* Consul.serviceID: the per-intent id of an entry of a task.
serviceID(task, intent) ==
    task.ID \o "_" \o intent.Name \o "_" \o ToString(intent.Port)

\* App.RegistrationIntents(task, nameSeparator).
RegistrationIntents(app, task, separator) == app.Intents

\* Consul.marathonTaskToConsulServices: one registration per intent, tagged
\* with the registry tag and the task's link tag; fails as a whole, with no
\* registrations, when the task's host does not resolve.
marathonTaskToConsulServices(c, task, app) ==
    IF task.Host = BadHost
    THEN [regs |-> <<>>, err |-> HostErr]
    ELSE LET intents == RegistrationIntents(app, task, c.ConsulNameSeparator)
         IN  [regs |-> [i \in 1..Len(intents) |->
                          [ID      |-> serviceID(task, intents[i]),
                           Name    |-> intents[i].Name,
                           Port    |-> intents[i].Port,
                           Address |-> task.Host,
                           Tags    |-> intents[i].Tags
                                         \o <<c.Tag, MarathonTaskTag(task.ID)>>]],
              err  |-> NoErr]

\* Service.TaskID: the task id of the first link tag among the tags; the zero
\* TaskID and an error when no tag is a link tag.
TaskIDOf(s) ==
    LET linked == {i \in 1..Len(s.Tags) :
                     \E t \in TaskIDs : s.Tags[i] = MarathonTaskTag(t)}
    IN  IF linked = {}
        THEN [id |-> "", err |-> "marathon-task tag missing"]
        ELSE LET first == CHOOSE i \in linked : \A j \in linked : i <= j
             IN  [id  |-> CHOOSE t \in TaskIDs : s.Tags[first] = MarathonTaskTag(t),
                  err |-> NoErr]

(***************************************************************************)
(* Helpers of the Stub.                                                    *)
(***************************************************************************)
\* A lookup that never finds the key: the check of the failure set left out.
neverProgrammedToFail(failSet, key) == FALSE

\* `_, ok := failSet[key]; ok`
programmedToFail(failSet, key) == key \in failSet

\* The caller-facing shape of a stored registration.
toService(s) ==
    [ID |-> s.ID, Name |-> s.Name, Tags |-> s.Tags, AgentAddress |-> s.Address]

\* A store that appends: an id already in the table is not overwritten, the
\* registration goes in beside it under a fresh key.
putBeside(table, r) ==
    LET key == IF r.ID \in DOMAIN table THEN r.ID \o "'" ELSE r.ID
    IN  [k \in DOMAIN table \cup {key} |-> IF k = key THEN r ELSE table[k]]

\* c.services[service.ID(r.ID)] = r
put(table, r) ==
    [k \in DOMAIN table \cup {r.ID} |-> IF k = r.ID THEN r ELSE table[k]]

\* delete(c.services, id)
remove(table, id) == [k \in DOMAIN table \ {id} |-> table[k]]

\* for _, r := range regs { c.services[service.ID(r.ID)] = r }
RECURSIVE putAll(_, _)
putAll(table, regs) ==
    IF regs = <<>> THEN table ELSE putAll(put(table, Head(regs)), Tail(regs))

\* The link tag with another separator than the one registration writes.
taskLinkTagDashed(taskID) == "marathon-task-" \o taskID

\* The link tag as DeregisterByTask formats it.
taskLinkTag(taskID) == "marathon-task:" \o taskID

\* Matching by the prefix of the link tag: any linked entry matches any task.
matchesTaskOrAnyLink(s, taskID) ==
    s.ID = taskID \/ \E t \in TaskIDs : contains(s.Tags, taskLinkTag(t))

\* Matching by id alone: the link-tag half of the condition left out.
matchesTaskByIDOnly(s, taskID) == s.ID = taskID

\* The condition of servicesMatchingTask.
matchesTask(s, taskID) ==
    s.ID = taskID \/ contains(s.Tags, taskLinkTag(taskID))

\* servicesMatchingTask: the stored registrations of a task.
RECURSIVE matchingFrom(_, _, _)
matchingFrom(table, keys, taskID) ==
    IF keys = {} THEN EmptyBag
    ELSE LET k == CHOOSE x \in keys : TRUE
             rest == matchingFrom(table, keys \ {k}, taskID)
         IN  IF matchesTask(table[k], taskID)
             THEN rest (+) SetToBag({table[k]})
             ELSE rest

servicesMatchingTask(table, taskID) == matchingFrom(table, DOMAIN table, taskID)

\* for _, x := range matching { delete(c.services, service.ID(x.ID)) }
RECURSIVE removeAll(_, _)
removeAll(table, matching) ==
    IF matching = EmptyBag THEN table
    ELSE LET x == CHOOSE y \in BagToSet(matching) : TRUE
         IN  removeAll(remove(table, x.ID), matching (-) SetToBag({x}))

\* A loop that keeps only the entries carrying the registry tag.
RECURSIVE ownedFrom(_, _)
ownedFrom(table, keys) ==
    IF keys = {} THEN EmptyBag
    ELSE LET k == CHOOSE x \in keys : TRUE
             rest == ownedFrom(table, keys \ {k})
         IN  IF contains(table[k].Tags, consul.Tag)
             THEN rest (+) SetToBag({toService(table[k])})
             ELSE rest

\* The loop of GetAllServices.
RECURSIVE allFrom(_, _)
allFrom(table, keys) ==
    IF keys = {} THEN EmptyBag
    ELSE LET k == CHOOSE x \in keys : TRUE
         IN  allFrom(table, keys \ {k}) (+) SetToBag({toService(table[k])})

\* Selecting by name alone: the registry-tag half of the condition left out.
selectedByNameOnly(s, name, tag) == s.Name = name

\* The condition of the loop of GetServices.
selected(s, name, tag) == s.Name = name /\ contains(s.Tags, tag)

\* The loop of GetServices.
RECURSIVE selectFrom(_, _, _, _)
selectFrom(table, keys, name, tag) ==
    IF keys = {} THEN EmptyBag
    ELSE LET k == CHOOSE x \in keys : TRUE
             rest == selectFrom(table, keys \ {k}, name, tag)
         IN  IF selected(table[k], name, tag)
             THEN rest (+) SetToBag({toService(table[k])})
             ELSE rest

\* The injected errors.
errGetServices(name) ==
    "Consul stub programmed to fail when getting services for name " \o name
errRegister(taskID) ==
    "Consul stub programmed to fail when registering task of id " \o taskID
errDeregisterByTask(taskID) ==
    "Consul stub programmed to fail when deregistering task of id " \o taskID
errDeregister(id) ==
    "Consul stub programmed to fail when deregistering service of id " \o id

\* GetServices as a function of the state: the returned services and error.
getServices(table, failSet, tag, name) ==
    IF programmedToFail(failSet, name)
    THEN [out |-> EmptyBag, err |-> errGetServices(name)]
    ELSE [out |-> selectFrom(table, DOMAIN table, name, tag), err |-> NoErr]

\* The loop of RegisteredTaskIDs: one appended id per returned service.
RECURSIVE taskIDsFrom(_)
taskIDsFrom(found) ==
    IF found = EmptyBag THEN EmptyBag
    ELSE LET s == CHOOSE x \in BagToSet(found) : TRUE
         IN  taskIDsFrom(found (-) SetToBag({s})) (+) SetToBag({TaskIDOf(s).id})

\* How a call follows the call before it: "repeat" is the same method with the
\* same argument again, "undo" is DeregisterByTask of the task that the call
\* before it registered with Register.
follows(op, arg) ==
    IF op = last.op /\ arg = last.arg THEN "repeat"
    ELSE IF /\ op = "DeregisterByTask"
            /\ last.op = "Register"
            /\ last.err = NoErr
            /\ last.arg.task.ID = arg
         THEN "undo"
         ELSE "-"

\* The record of a call that has returned.
Ret(op, arg, err, out) ==
    [op |-> op, arg |-> arg, err |-> err, out |-> out, after |-> follows(op, arg)]

flagged == Cardinality(failGetServicesForNames) + Cardinality(failRegisterForIDs)
             + Cardinality(failDeregisterByTaskForIDs)
             + Cardinality(failDeregisterForIDs)

(***************************************************************************)
(* The lock and the callers.  mu is the embedded sync.RWMutex: w is the    *)
(* goroutine holding it for writing (NoHolder when none does), r the set   *)
(* of goroutines holding it for reading.  threads[t] is the call goroutine *)
(* t is in: the method and its argument, the statement it stands at, its   *)
(* local registrations or matches still to process, and its results.       *)
(***************************************************************************)
Threads == {"g1", "g2"}

NoHolder == "-"

Unlocked == [w |-> NoHolder, r |-> {}]

Idle == [op |-> "-", arg |-> "-", at |-> "idle", todo |-> <<>>,
         err |-> NoErr, out |-> EmptyBag, calls |-> 0]

(***************************************************************************)
(* Construction.                                                           *)
(***************************************************************************)
NewConsulStubWithTag(tag) ==
    /\ services = <<>>
    /\ failGetServicesForNames = {}
    /\ failRegisterForIDs = {}
    /\ failDeregisterByTaskForIDs = {}
    /\ failDeregisterForIDs = {}
    /\ consul = [Tag |-> tag, ConsulNameSeparator |-> "."]
    /\ last = [op |-> "New", arg |-> tag, err |-> NoErr, out |-> EmptyBag,
               after |-> "-"]
    /\ aborted = FALSE
    /\ mu = Unlocked
    /\ threads = [t \in Threads |-> Idle]

Init == \E tag \in ConfigTags : NewConsulStubWithTag(tag)

(***************************************************************************)
(* Queries.                                                                *)
(***************************************************************************)
GetAllServices ==
    /\ ~aborted
    /\ last' = Ret("GetAllServices", "", NoErr, allFrom(services, DOMAIN services))
    /\ UNCHANGED <<services, failSets, consul, aborted, mu, threads>>

GetServices(name) ==
    /\ ~aborted
    /\ LET r == getServices(services, failGetServicesForNames, consul.Tag, name)
       IN  last' = Ret("GetServices", name, r.err, r.out)
    /\ UNCHANGED <<services, failSets, consul, aborted, mu, threads>>

RegisteredTaskIDs(serviceName) ==
    /\ ~aborted
    /\ LET r == getServices(services, failGetServicesForNames, consul.Tag,
                            serviceName)
       IN  last' = Ret("RegisteredTaskIDs", serviceName, NoErr, taskIDsFrom(r.out))
    /\ UNCHANGED <<services, failSets, consul, aborted, mu, threads>>

(***************************************************************************)
(* Failure-injection setters.                                              *)
(***************************************************************************)
FailGetServicesForName(failOnName) ==
    /\ ~aborted
    /\ failOnName \in failGetServicesForNames \/ flagged < MaxFlags
    /\ failGetServicesForNames' = failGetServicesForNames \cup {failOnName}
    /\ last' = Ret("FailGetServicesForName", failOnName, NoErr, EmptyBag)
    /\ UNCHANGED <<services, failRegisterForIDs, failDeregisterByTaskForIDs,
                   failDeregisterForIDs, consul, aborted, mu, threads>>

FailRegisterForID(taskID) ==
    /\ ~aborted
    /\ taskID \in failRegisterForIDs \/ flagged < MaxFlags
    /\ failRegisterForIDs' = failRegisterForIDs \cup {taskID}
    /\ last' = Ret("FailRegisterForID", taskID, NoErr, EmptyBag)
    /\ UNCHANGED <<services, failGetServicesForNames, failDeregisterByTaskForIDs,
                   failDeregisterForIDs, consul, aborted, mu, threads>>

\* A setter that assigns a fresh one-key map instead of adding to the map.
FailDeregisterByTaskForIDOnly(taskID) ==
    /\ ~aborted
    /\ taskID \in failDeregisterByTaskForIDs \/ flagged < MaxFlags
    /\ failDeregisterByTaskForIDs' = {taskID}
    /\ last' = Ret("FailDeregisterByTaskForID", taskID, NoErr, EmptyBag)
    /\ UNCHANGED <<services, failGetServicesForNames, failRegisterForIDs,
                   failDeregisterForIDs, consul, aborted, mu, threads>>

FailDeregisterByTaskForID(taskID) ==
    /\ ~aborted
    /\ taskID \in failDeregisterByTaskForIDs \/ flagged < MaxFlags
    /\ failDeregisterByTaskForIDs' = failDeregisterByTaskForIDs \cup {taskID}
    /\ last' = Ret("FailDeregisterByTaskForID", taskID, NoErr, EmptyBag)
    /\ UNCHANGED <<services, failGetServicesForNames, failRegisterForIDs,
                   failDeregisterForIDs, consul, aborted, mu, threads>>

FailDeregisterForID(serviceID_) ==
    /\ ~aborted
    /\ serviceID_ \in failDeregisterForIDs \/ flagged < MaxFlags
    /\ failDeregisterForIDs' = failDeregisterForIDs \cup {serviceID_}
    /\ last' = Ret("FailDeregisterForID", serviceID_, NoErr, EmptyBag)
    /\ UNCHANGED <<services, failGetServicesForNames, failRegisterForIDs,
                   failDeregisterByTaskForIDs, consul, aborted, mu, threads>>

(***************************************************************************)
(* Registration.                                                           *)
(***************************************************************************)
\* Register with the extraction error dropped, as the first-intent variant
\* drops it.
RegisterDroppingError(task, app) ==
    /\ ~aborted
    /\ LET arg == [task |-> task, app |-> app]
           r == marathonTaskToConsulServices(consul, task, app)
       IN  IF programmedToFail(failRegisterForIDs, task.ID)
           THEN /\ last' = Ret("Register", arg, errRegister(task.ID), <<>>)
                /\ UNCHANGED services
           ELSE /\ services' = putAll(services, r.regs)
                /\ last' = Ret("Register", arg, NoErr, r.regs)
    /\ UNCHANGED <<failSets, consul, aborted, mu, threads>>

Register(task, app) ==
    /\ ~aborted
    /\ LET arg == [task |-> task, app |-> app]
           r == marathonTaskToConsulServices(consul, task, app)
       IN  IF programmedToFail(failRegisterForIDs, task.ID)
           THEN /\ last' = Ret("Register", arg, errRegister(task.ID), <<>>)
                /\ UNCHANGED services
           ELSE IF r.err # NoErr
           THEN /\ last' = Ret("Register", arg, r.err, <<>>)
                /\ UNCHANGED services
           ELSE /\ services' = putAll(services, r.regs)
                /\ last' = Ret("Register", arg, NoErr, r.regs)
    /\ UNCHANGED <<failSets, consul, aborted, mu, threads>>

\* A loop body that keys each registration by its intent, as Register does.
unlinkedRegistrationPerIntent(task, intent) ==
    [ID      |-> serviceID(task, intent),
     Name    |-> intent.Name,
     Port    |-> intent.Port,
     Address |-> task.Host,
     Tags    |-> intent.Tags]

\* The loop body of RegisterWithoutMarathonTaskTag.
unlinkedRegistration(task, intent) ==
    [ID      |-> task.ID,
     Name    |-> intent.Name,
     Port    |-> intent.Port,
     Address |-> task.Host,
     Tags    |-> intent.Tags]

RegisterWithoutMarathonTaskTag(task, app) ==
    /\ ~aborted
    /\ LET intents == RegistrationIntents(app, task, consul.ConsulNameSeparator)
           regs == [i \in 1..Len(intents) |-> unlinkedRegistration(task, intents[i])]
       IN  /\ services' = putAll(services, regs)
           /\ last' = Ret("RegisterWithoutMarathonTaskTag",
                          [task |-> task, app |-> app], NoErr, regs)
    /\ UNCHANGED <<failSets, consul, aborted, mu, threads>>

\* The first-intent variant storing every registration, as Register does.
RegisterEveryRegistrationIntent(task, app) ==
    /\ ~aborted
    /\ LET arg == [task |-> task, app |-> app]
           r == marathonTaskToConsulServices(consul, task, app)
       IN  IF Len(r.regs) = 0
           THEN /\ aborted' = TRUE
                /\ last' = Ret("RegisterOnlyFirstRegistrationIntent", arg,
                               IndexPanic, <<>>)
                /\ UNCHANGED services
           ELSE /\ services' = putAll(services, r.regs)
                /\ last' = Ret("RegisterOnlyFirstRegistrationIntent", arg,
                               NoErr, r.regs)
                /\ UNCHANGED aborted
    /\ UNCHANGED <<failSets, consul, mu, threads>>

RegisterOnlyFirstRegistrationIntent(task, app) ==
    /\ ~aborted
    /\ LET arg == [task |-> task, app |-> app]
           r == marathonTaskToConsulServices(consul, task, app)
       IN  IF Len(r.regs) = 0
           THEN \* serviceRegistrations[0] of an empty slice panics; the deferred
                \* Unlock runs and the panic leaves the method
                /\ aborted' = TRUE
                /\ last' = Ret("RegisterOnlyFirstRegistrationIntent", arg,
                               IndexPanic, <<>>)
                /\ UNCHANGED services
           ELSE /\ services' = put(services, r.regs[1])
                /\ last' = Ret("RegisterOnlyFirstRegistrationIntent", arg,
                               NoErr, r.regs)
                /\ UNCHANGED aborted
    /\ UNCHANGED <<failSets, consul, mu, threads>>

(***************************************************************************)
(* Deregistration.                                                         *)
(***************************************************************************)
\* DeregisterByTask going through the failure set of Deregister for each
\* matched entry: a flagged entry stays and makes the call fail.
DeregisterByTaskOneByOne(taskID) ==
    /\ ~aborted
    /\ IF programmedToFail(failDeregisterByTaskForIDs, taskID)
       THEN /\ last' = Ret("DeregisterByTask", taskID,
                           errDeregisterByTask(taskID), EmptyBag)
            /\ UNCHANGED services
       ELSE LET matching == servicesMatchingTask(services, taskID)
                held == {x \in BagToSet(matching) :
                           programmedToFail(failDeregisterForIDs, x.ID)}
            IN  /\ services' = removeAll(services, matching (-) SetToBag(held))
                /\ last' = Ret("DeregisterByTask", taskID,
                               IF held = {} THEN NoErr
                               ELSE errDeregister((CHOOSE x \in held : TRUE).ID),
                               matching)
    /\ UNCHANGED <<failSets, consul, aborted, mu, threads>>

DeregisterByTask(taskID) ==
    /\ ~aborted
    /\ IF programmedToFail(failDeregisterByTaskForIDs, taskID)
       THEN /\ last' = Ret("DeregisterByTask", taskID,
                           errDeregisterByTask(taskID), EmptyBag)
            /\ UNCHANGED services
       ELSE LET matching == servicesMatchingTask(services, taskID)
            IN  /\ services' = removeAll(services, matching)
                /\ last' = Ret("DeregisterByTask", taskID, NoErr, matching)
    /\ UNCHANGED <<failSets, consul, aborted, mu, threads>>

\* Deregister that reports an id it does not find.
DeregisterKnownOnly(toDeregister) ==
    /\ ~aborted
    /\ IF programmedToFail(failDeregisterForIDs, toDeregister.ID)
       THEN /\ last' = Ret("Deregister", toDeregister,
                           errDeregister(toDeregister.ID), EmptyBag)
            /\ UNCHANGED services
       ELSE IF toDeregister.ID \notin DOMAIN services
       THEN /\ last' = Ret("Deregister", toDeregister, "unknown service", EmptyBag)
            /\ UNCHANGED services
       ELSE /\ services' = remove(services, toDeregister.ID)
            /\ last' = Ret("Deregister", toDeregister, NoErr, EmptyBag)
    /\ UNCHANGED <<failSets, consul, aborted, mu, threads>>

Deregister(toDeregister) ==
    /\ ~aborted
    /\ IF programmedToFail(failDeregisterForIDs, toDeregister.ID)
       THEN /\ last' = Ret("Deregister", toDeregister,
                           errDeregister(toDeregister.ID), EmptyBag)
            /\ UNCHANGED services
       ELSE /\ services' = remove(services, toDeregister.ID)
            /\ last' = Ret("Deregister", toDeregister, NoErr, EmptyBag)
    /\ UNCHANGED <<failSets, consul, aborted, mu, threads>>

(***************************************************************************)
(* The specification: any caller, any call, any argument.                  *)
(***************************************************************************)
\* Every id an entry can be stored under.
ServiceIDs ==
    TaskIDs \cup UNION {{serviceID(c.task, c.app.Intents[i]) :
                            i \in 1..Len(c.app.Intents)} : c \in RegisterArgs}

\* The services a caller hands to Deregister: only the ID is read.
ServiceArgs ==
    {[ID |-> id, Name |-> "web", Tags |-> <<>>, AgentAddress |-> GoodHost] :
       id \in ServiceIDs}

\* The service ids FailDeregisterForID is called with.
FailableIDs == {"t1", serviceID(T1, WebOwned)}

Next ==
    \/ GetAllServices
    \/ \E name \in Names : GetServices(name)
    \/ \E name \in Names : RegisteredTaskIDs(name)
    \/ \E name \in Names : FailGetServicesForName(name)
    \/ \E taskID \in TaskIDs : FailRegisterForID(taskID)
    \/ \E taskID \in TaskIDs : FailDeregisterByTaskForID(taskID)
    \/ \E id \in FailableIDs : FailDeregisterForID(id)
    \/ \E c \in RegisterArgs : Register(c.task, c.app)
    \/ \E c \in RegisterArgs : RegisterWithoutMarathonTaskTag(c.task, c.app)
    \/ \E c \in RegisterArgs : RegisterOnlyFirstRegistrationIntent(c.task, c.app)
    \/ \E taskID \in TaskIDs : DeregisterByTask(taskID)
    \/ \E s \in ServiceArgs : Deregister(s)

Spec == Init /\ [][Next]_vars

(***************************************************************************)
(* The methods on concurrent goroutines.  A call is a sequence of steps:   *)
(* the call itself, c.Lock() or c.RLock(), the statements of the body that *)
(* read or write the maps (one step per failure-set check, per store and   *)
(* per delete), and the deferred Unlock or RUnlock with which the method   *)
(* returns.  threads[t].at names the statement goroutine t stands before:  *)
(* "lock", then "locked" (first statement of the body), "store" and        *)
(* "delete" (inside the loops), "unlock" (body done, deferred unlock       *)
(* pending), "panic" (unwinding an index panic, deferred unlock pending),  *)
(* "collect" (the loop of RegisteredTaskIDs after its GetServices call),   *)
(* "write" (the one statement of a Fail* setter), "idle" between calls.    *)
(***************************************************************************)
MaxCalls == 4

ReadOps == {"GetAllServices", "GetServices", "RegisteredTaskIDs"}

WriteOps == {"Register", "RegisterWithoutMarathonTaskTag",
             "RegisterOnlyFirstRegistrationIntent", "DeregisterByTask",
             "Deregister"}

SetterOps == {"FailGetServicesForName", "FailRegisterForID",
              "FailDeregisterByTaskForID", "FailDeregisterForID"}

\* The calls the goroutines make.
ConcRegisterArgs ==
    {[task |-> T1, app |-> TwoIntents], [task |-> T1Lost, app |-> TwoIntents]}

ConcCalls ==
    {[op |-> "GetAllServices", arg |-> ""],
     [op |-> "GetServices", arg |-> "web"],
     [op |-> "RegisteredTaskIDs", arg |-> "web"],
     [op |-> "DeregisterByTask", arg |-> "t1"],
     [op |-> "Deregister",
      arg |-> [ID |-> serviceID(T1, WebBare), Name |-> "web", Tags |-> <<>>,
               AgentAddress |-> GoodHost]],
     [op |-> "FailGetServicesForName", arg |-> "web"],
     [op |-> "FailRegisterForID", arg |-> "t1"],
     [op |-> "FailDeregisterByTaskForID", arg |-> "t1"],
     [op |-> "FailDeregisterForID", arg |-> serviceID(T1, WebBare)]}
    \cup {[op |-> o, arg |-> a] :
            o \in {"Register", "RegisterWithoutMarathonTaskTag",
                   "RegisterOnlyFirstRegistrationIntent"},
            a \in ConcRegisterArgs}

\* The calls made so far by the goroutines of ts.
RECURSIVE started(_)
started(ts) ==
    IF ts = {} THEN 0
    ELSE LET t == CHOOSE x \in ts : TRUE
         IN  threads[t].calls + started(ts \ {t})

\* Goroutine t moves to statement at with the other fields as given.
goto(t, at, todo, err, out) ==
    threads' = [threads EXCEPT ![t] = [@ EXCEPT !.at = at, !.todo = todo,
                                                !.err = err, !.out = out]]

\* Goroutine t returns from its call.
return(t) ==
    threads' = [threads EXCEPT ![t] = [Idle EXCEPT !.calls = threads[t].calls]]

\* The failure set a method checks in its first statement under the lock, and
\* the one a setter writes: the sets are named by their field.
checkedSet(op) ==
    CASE op \in {"GetServices", "RegisteredTaskIDs"} -> "failGetServicesForNames"
      [] op = "Register" -> "failRegisterForIDs"
      [] op = "DeregisterByTask" -> "failDeregisterByTaskForIDs"
      [] op = "Deregister" -> "failDeregisterForIDs"
      [] OTHER -> "-"

writtenSet(op) ==
    CASE op = "FailGetServicesForName" -> "failGetServicesForNames"
      [] op = "FailRegisterForID" -> "failRegisterForIDs"
      [] op = "FailDeregisterByTaskForID" -> "failDeregisterByTaskForIDs"
      [] op = "FailDeregisterForID" -> "failDeregisterForIDs"
      [] OTHER -> "-"

\* Goroutine t is about to write a failure set that goroutine u is about to
\* read or write: with no lock between them the two accesses are concurrent.
races(t, u) ==
    /\ t # u
    /\ threads[t].at = "write"
    /\ \/ threads[u].at = "write"
          /\ writtenSet(threads[u].op) = writtenSet(threads[t].op)
       \/ threads[u].at = "locked"
          /\ checkedSet(threads[u].op) = writtenSet(threads[t].op)

\* A method is called on goroutine t.
Call(t, c) ==
    /\ ~aborted
    /\ threads[t].at = "idle"
    /\ started(Threads) < MaxCalls
    /\ threads' = [threads EXCEPT ![t] =
                     [Idle EXCEPT !.op = c.op, !.arg = c.arg,
                                  !.at = IF c.op \in SetterOps THEN "write"
                                         ELSE "lock",
                                  !.calls = threads[t].calls + 1]]
    /\ UNCHANGED <<services, failSets, consul, last, aborted, mu>>

\* A mutating method taking the lock with c.RLock() instead of c.Lock().
LockForReading(t) ==
    /\ ~aborted
    /\ threads[t].at = "lock"
    /\ threads[t].op \in WriteOps
    /\ mu.w = NoHolder
    /\ mu' = [mu EXCEPT !.r = @ \cup {t}]
    /\ goto(t, "locked", <<>>, NoErr, EmptyBag)
    /\ UNCHANGED <<services, failSets, consul, last, aborted>>

\* c.Lock(): blocks until no goroutine holds the lock in either mode.
Lock(t) ==
    /\ ~aborted
    /\ threads[t].at = "lock"
    /\ threads[t].op \in WriteOps
    /\ mu = Unlocked
    /\ mu' = [mu EXCEPT !.w = t]
    /\ goto(t, "locked", <<>>, NoErr, EmptyBag)
    /\ UNCHANGED <<services, failSets, consul, last, aborted>>

\* c.RLock(): blocks while a goroutine holds the lock for writing.
RLock(t) ==
    /\ ~aborted
    /\ threads[t].at = "lock"
    /\ threads[t].op \in ReadOps
    /\ mu.w = NoHolder
    /\ mu' = [mu EXCEPT !.r = @ \cup {t}]
    /\ goto(t, "locked", <<>>, NoErr, EmptyBag)
    /\ UNCHANGED <<services, failSets, consul, last, aborted>>

\* defer c.Unlock() of a method that returns.
Unlock(t) ==
    /\ ~aborted
    /\ threads[t].at = "unlock"
    /\ threads[t].op \in WriteOps
    /\ mu' = [mu EXCEPT !.w = NoHolder]
    /\ return(t)
    /\ UNCHANGED <<services, failSets, consul, last, aborted>>

\* defer c.RUnlock(); RegisteredTaskIDs goes on to its loop over the result.
RUnlock(t) ==
    /\ ~aborted
    /\ threads[t].at = "unlock"
    /\ threads[t].op \in ReadOps
    /\ mu' = [mu EXCEPT !.r = @ \ {t}]
    /\ IF threads[t].op = "RegisteredTaskIDs"
       THEN goto(t, "collect", <<>>, threads[t].err, threads[t].out)
       ELSE return(t)
    /\ UNCHANGED <<services, failSets, consul, last, aborted>>

\* defer c.Unlock() of a method that panicked: the lock is released while the
\* panic unwinds, and the panic, which nothing recovers, ends the program.
UnlockPanicking(t) ==
    /\ ~aborted
    /\ threads[t].at = "panic"
    /\ mu' = [mu EXCEPT !.w = NoHolder]
    /\ goto(t, "panicked", <<>>, threads[t].err, EmptyBag)
    /\ aborted' = TRUE
    /\ UNCHANGED <<services, failSets, consul, last>>

\* The body of GetAllServices.
GetAllServicesBody(t) ==
    /\ ~aborted
    /\ threads[t].at = "locked"
    /\ threads[t].op = "GetAllServices"
    /\ goto(t, "unlock", <<>>, NoErr, allFrom(services, DOMAIN services))
    /\ UNCHANGED <<services, failSets, consul, last, aborted, mu>>

\* The body of GetServices, called directly or by RegisteredTaskIDs.
GetServicesBody(t) ==
    /\ ~aborted
    /\ threads[t].at = "locked"
    /\ threads[t].op \in {"GetServices", "RegisteredTaskIDs"}
    /\ LET r == getServices(services, failGetServicesForNames, consul.Tag,
                            threads[t].arg)
       IN  goto(t, "unlock", <<>>, r.err, r.out)
    /\ UNCHANGED <<services, failSets, consul, last, aborted, mu>>

\* The loop of RegisteredTaskIDs, which touches nothing of the Stub.
Collect(t) ==
    /\ ~aborted
    /\ threads[t].at = "collect"
    /\ return(t)
    /\ UNCHANGED <<services, failSets, consul, last, aborted, mu>>

\* Register with its Unlock not deferred but called once the failure check and
\* the extraction are done: the loop then stores without the lock.
RegisterBeginUnlocking(t) ==
    /\ ~aborted
    /\ threads[t].at = "locked"
    /\ threads[t].op = "Register"
    /\ LET task == threads[t].arg.task
           r == marathonTaskToConsulServices(consul, task, threads[t].arg.app)
       IN  IF programmedToFail(failRegisterForIDs, task.ID)
           THEN goto(t, "unlock", <<>>, errRegister(task.ID), EmptyBag)
           ELSE IF r.err # NoErr
           THEN goto(t, "unlock", <<>>, r.err, EmptyBag)
           ELSE goto(t, IF r.regs = <<>> THEN "unlock" ELSE "store", r.regs,
                     NoErr, EmptyBag)
    /\ mu' = Unlocked
    /\ UNCHANGED <<services, failSets, consul, last, aborted>>

\* Register up to its loop: the failure check and the extraction.
RegisterBegin(t) ==
    /\ ~aborted
    /\ threads[t].at = "locked"
    /\ threads[t].op = "Register"
    /\ LET task == threads[t].arg.task
           r == marathonTaskToConsulServices(consul, task, threads[t].arg.app)
       IN  IF programmedToFail(failRegisterForIDs, task.ID)
           THEN goto(t, "unlock", <<>>, errRegister(task.ID), EmptyBag)
           ELSE IF r.err # NoErr
           THEN goto(t, "unlock", <<>>, r.err, EmptyBag)
           ELSE goto(t, IF r.regs = <<>> THEN "unlock" ELSE "store", r.regs,
                     NoErr, EmptyBag)
    /\ UNCHANGED <<services, failSets, consul, last, aborted, mu>>

\* RegisterWithoutMarathonTaskTag up to its loop.
RegisterWithoutMarathonTaskTagBegin(t) ==
    /\ ~aborted
    /\ threads[t].at = "locked"
    /\ threads[t].op = "RegisterWithoutMarathonTaskTag"
    /\ LET task == threads[t].arg.task
           intents == RegistrationIntents(threads[t].arg.app, task,
                                          consul.ConsulNameSeparator)
           regs == [i \in 1..Len(intents) |->
                      unlinkedRegistration(task, intents[i])]
       IN  goto(t, IF regs = <<>> THEN "unlock" ELSE "store", regs, NoErr,
                EmptyBag)
    /\ UNCHANGED <<services, failSets, consul, last, aborted, mu>>

\* One iteration of the storing loop of Register and of
\* RegisterWithoutMarathonTaskTag.
StoreNext(t) ==
    /\ ~aborted
    /\ threads[t].at = "store"
    /\ services' = put(services, Head(threads[t].todo))
    /\ LET rest == Tail(threads[t].todo)
       IN  goto(t, IF rest = <<>> THEN "unlock" ELSE "store", rest, NoErr,
                EmptyBag)
    /\ UNCHANGED <<failSets, consul, last, aborted, mu>>

\* The body of RegisterOnlyFirstRegistrationIntent.
RegisterOnlyFirstRegistrationIntentBody(t) ==
    /\ ~aborted
    /\ threads[t].at = "locked"
    /\ threads[t].op = "RegisterOnlyFirstRegistrationIntent"
    /\ LET r == marathonTaskToConsulServices(consul, threads[t].arg.task,
                                             threads[t].arg.app)
       IN  IF Len(r.regs) = 0
           THEN /\ goto(t, "panic", <<>>, IndexPanic, EmptyBag)
                /\ UNCHANGED services
           ELSE /\ services' = put(services, r.regs[1])
                /\ goto(t, "unlock", <<>>, NoErr, EmptyBag)
    /\ UNCHANGED <<failSets, consul, last, aborted, mu>>

\* DeregisterByTask up to its loop: the failure check and the matching.
DeregisterByTaskBegin(t) ==
    /\ ~aborted
    /\ threads[t].at = "locked"
    /\ threads[t].op = "DeregisterByTask"
    /\ LET taskID == threads[t].arg
           matching == servicesMatchingTask(services, taskID)
       IN  IF programmedToFail(failDeregisterByTaskForIDs, taskID)
           THEN goto(t, "unlock", <<>>, errDeregisterByTask(taskID), EmptyBag)
           ELSE goto(t, IF matching = EmptyBag THEN "unlock" ELSE "delete",
                     matching, NoErr, EmptyBag)
    /\ UNCHANGED <<services, failSets, consul, last, aborted, mu>>

\* One iteration of the deleting loop of DeregisterByTask.
DeleteNext(t) ==
    /\ ~aborted
    /\ threads[t].at = "delete"
    /\ \E x \in BagToSet(threads[t].todo) :
          LET rest == threads[t].todo (-) SetToBag({x})
          IN  /\ services' = remove(services, x.ID)
              /\ goto(t, IF rest = EmptyBag THEN "unlock" ELSE "delete", rest,
                      NoErr, EmptyBag)
    /\ UNCHANGED <<failSets, consul, last, aborted, mu>>

\* The body of Deregister.
DeregisterBody(t) ==
    /\ ~aborted
    /\ threads[t].at = "locked"
    /\ threads[t].op = "Deregister"
    /\ LET id == threads[t].arg.ID
       IN  IF programmedToFail(failDeregisterForIDs, id)
           THEN /\ goto(t, "unlock", <<>>, errDeregister(id), EmptyBag)
                /\ UNCHANGED services
           ELSE /\ services' = remove(services, id)
                /\ goto(t, "unlock", <<>>, NoErr, EmptyBag)
    /\ UNCHANGED <<failSets, consul, last, aborted, mu>>

\* The one statement of a Fail* setter: the key goes into the setter's set,
\* with no lock taken before it.
SetterWrite(t) ==
    /\ ~aborted
    /\ threads[t].at = "write"
    /\ LET set == writtenSet(threads[t].op)
           with(name, current) ==
               IF set = name THEN current \cup {threads[t].arg} ELSE current
       IN  /\ failGetServicesForNames' =
                 with("failGetServicesForNames", failGetServicesForNames)
           /\ failRegisterForIDs' = with("failRegisterForIDs", failRegisterForIDs)
           /\ failDeregisterByTaskForIDs' =
                 with("failDeregisterByTaskForIDs", failDeregisterByTaskForIDs)
           /\ failDeregisterForIDs' =
                 with("failDeregisterForIDs", failDeregisterForIDs)
    /\ return(t)
    /\ UNCHANGED <<services, consul, last, aborted, mu>>

\* A setter's map write concurrent with another access to the same map is a
\* data race; besides taking effect in either order, the Go runtime may detect
\* it and end the program ("fatal error: concurrent map writes" or
\* "concurrent map read and map write").
ConcurrentMapFatal(t) ==
    /\ ~aborted
    /\ \E u \in Threads : races(t, u)
    /\ aborted' = TRUE
    /\ UNCHANGED <<services, failSets, consul, last, mu, threads>>

ConcNext ==
    \/ \E t \in Threads : \E c \in ConcCalls : Call(t, c)
    \/ \E t \in Threads : Lock(t)
    \/ \E t \in Threads : RLock(t)
    \/ \E t \in Threads : GetAllServicesBody(t)
    \/ \E t \in Threads : GetServicesBody(t)
    \/ \E t \in Threads : Collect(t)
    \/ \E t \in Threads : RegisterBegin(t)
    \/ \E t \in Threads : RegisterWithoutMarathonTaskTagBegin(t)
    \/ \E t \in Threads : StoreNext(t)
    \/ \E t \in Threads : RegisterOnlyFirstRegistrationIntentBody(t)
    \/ \E t \in Threads : DeregisterByTaskBegin(t)
    \/ \E t \in Threads : DeleteNext(t)
    \/ \E t \in Threads : DeregisterBody(t)
    \/ \E t \in Threads : SetterWrite(t)
    \/ \E t \in Threads : ConcurrentMapFatal(t)
    \/ \E t \in Threads : Unlock(t)
    \/ \E t \in Threads : RUnlock(t)
    \/ \E t \in Threads : UnlockPanicking(t)

ConcSpec == Init /\ [][ConcNext]_vars

(***************************************************************************)
(* Properties.                                                             *)
(***************************************************************************)
\* The tags of a stored entry hold the string t.
hasTag(entry, t) == \E i \in DOMAIN entry.Tags : entry.Tags[i] = t

\* The key of the call recorded in r is in the failure set of its method, the
\* four sets being given as f.
keyFlagged(r, f) ==
    \/ r.op = "GetServices" /\ r.arg \in f[1]
    \/ r.op = "Register" /\ r.arg.task.ID \in f[2]
    \/ r.op = "DeregisterByTask" /\ r.arg \in f[3]
    \/ r.op = "Deregister" /\ r.arg.ID \in f[4]

\* C1: a Register, DeregisterByTask, Deregister or GetServices call whose key
\* is in that method's failure set when the call is made returns an error and
\* leaves the table and the four failure sets as they were.
C1_FlaggedCallFailsWithoutEffect ==
    [][keyFlagged(last', failSets)
         => /\ last'.err # NoErr
            /\ services' = services
            /\ failSets' = failSets]_vars

\* C1 witness: DeregisterByTask has failed on a flagged task whose entries,
\* matched by id and by link tag, are all still in the table.
C1_Witness ==
    /\ last.op = "DeregisterByTask"
    /\ last.err # NoErr
    /\ last.arg \in failDeregisterByTaskForIDs
    /\ \E k \in DOMAIN services : services[k].ID = last.arg
    /\ \E k \in DOMAIN services :
          services[k].ID # last.arg /\ hasTag(services[k], "marathon-task:" \o last.arg)

\* The injected error of the call recorded in r.
injectedError(r) ==
    CASE r.op = "GetServices" -> errGetServices(r.arg)
      [] r.op = "Register" -> errRegister(r.arg.task.ID)
      [] r.op = "DeregisterByTask" -> errDeregisterByTask(r.arg)
      [] r.op = "Deregister" -> errDeregister(r.arg.ID)

\* C2: no step removes a key from a failure set, and a call of one of the four
\* methods fails with the injected error exactly when its key is flagged.
C2_FailurePermanence ==
    [][/\ failGetServicesForNames \subseteq failGetServicesForNames'
       /\ failRegisterForIDs \subseteq failRegisterForIDs'
       /\ failDeregisterByTaskForIDs \subseteq failDeregisterByTaskForIDs'
       /\ failDeregisterForIDs \subseteq failDeregisterForIDs'
       /\ last'.op \in {"GetServices", "Register", "DeregisterByTask", "Deregister"}
            => (last'.err = injectedError(last') <=> keyFlagged(last', failSets'))]_vars

\* C2 witness: with two keys flagged in different sets and entries in the
\* table, Register of the flagged task fails again, with the injected error.
C2_Witness ==
    /\ last.op = "Register"
    /\ last.after = "repeat"
    /\ last.err = errRegister(last.arg.task.ID)
    /\ failDeregisterForIDs # {}
    /\ services # <<>>

\* C3: after a successful DeregisterByTask(taskID) no entry of the table has
\* taskID as its id or "marathon-task:<taskID>" among its tags.
C3_DeregisterByTaskRemovesBothForms ==
    (last.op = "DeregisterByTask" /\ last.err = NoErr)
      => \A k \in DOMAIN services :
           /\ k # last.arg
           /\ services[k].ID # last.arg
           /\ ~hasTag(services[k], "marathon-task:" \o last.arg)

\* C3 witness: one successful DeregisterByTask has removed an entry with the
\* task's id and two entries with other ids that carried the task's link tag.
C3_Witness ==
    /\ last.op = "DeregisterByTask"
    /\ last.err = NoErr
    /\ \E x \in BagToSet(last.out) : x.ID = last.arg
    /\ Cardinality({x \in BagToSet(last.out) :
                       x.ID # last.arg /\ hasTag(x, "marathon-task:" \o last.arg)}) >= 2

\* C4: GetServices(name) with name not flagged returns no error and exactly
\* one result for each entry with that name and the configured registry tag,
\* and nothing else.
C4_GetServicesNameAndTag ==
    (last.op = "GetServices" /\ last.arg \notin failGetServicesForNames)
      => /\ last.err = NoErr
         /\ \A k \in DOMAIN services :
              LET e == services[k]
                  shown == [ID |-> e.ID, Name |-> e.Name, Tags |-> e.Tags,
                            AgentAddress |-> e.Address]
              IN  CopiesIn(shown, last.out)
                    = IF e.Name = last.arg /\ hasTag(e, consul.Tag) THEN 1 ELSE 0
         /\ \A x \in BagToSet(last.out) :
              \E k \in DOMAIN services :
                /\ x.ID = services[k].ID
                /\ x.Name = last.arg
                /\ hasTag(services[k], consul.Tag)
         /\ BagCardinality(last.out)
              = Cardinality({k \in DOMAIN services :
                               services[k].Name = last.arg
                                 /\ hasTag(services[k], consul.Tag)})

\* C4 witness: GetServices has returned an entry with the name and the registry
\* tag while the table also holds an entry with that name stored without the tag.
C4_Witness ==
    /\ last.op = "GetServices"
    /\ last.err = NoErr
    /\ last.out # EmptyBag
    /\ \E k \in DOMAIN services :
          services[k].Name = last.arg /\ ~hasTag(services[k], consul.Tag)

\* C5: a Register call that repeats the successful Register call before it,
\* with the same task and app, succeeds and leaves the table exactly as the
\* first call left it: same keys, same entries.
C5_RegisterTwiceIsRegisterOnce ==
    [][(last'.op = "Register" /\ last'.after = "repeat" /\ last.err = NoErr)
         => /\ last'.err = NoErr
            /\ DOMAIN services' = DOMAIN services
            /\ services' = services
            /\ \A i \in DOMAIN last'.out : services'[last'.out[i].ID] = last'.out[i]]_vars

\* C5 witness: a two-intent Register has been repeated with success on a table
\* that holds other entries too.
C5_Witness ==
    /\ last.op = "Register"
    /\ last.after = "repeat"
    /\ last.err = NoErr
    /\ Len(last.out) = 2
    /\ Cardinality(DOMAIN services) > 2

\* C6: when the task of a Register call is not flagged and intent extraction
\* fails, Register returns the extraction error and the table is unchanged.
C6_ExtractionErrorStoresNothing ==
    [][(/\ last'.op = "Register"
        /\ last'.arg.task.ID \notin failRegisterForIDs
        /\ marathonTaskToConsulServices(consul, last'.arg.task, last'.arg.app).err
              # NoErr)
         => /\ last'.err
                 = marathonTaskToConsulServices(consul, last'.arg.task,
                                                last'.arg.app).err
            /\ services' = services]_vars

\* C6 witness: Register of a two-intent app has returned the extraction error
\* and neither of the two entries is in the table, which holds other entries.
C6_Witness ==
    /\ last.op = "Register"
    /\ last.err = HostErr
    /\ Len(last.arg.app.Intents) = 2
    /\ \A i \in 1..2 :
          serviceID(last.arg.task, last.arg.app.Intents[i]) \notin DOMAIN services
    /\ services # <<>>

\* C7: Deregister of an unflagged id that is no key of the table, and
\* DeregisterByTask of an unflagged task that no entry matches by id or by
\* link tag, return success and leave the table unchanged.
C7_NothingToDeregisterIsSuccess ==
    [][/\ (/\ last'.op = "Deregister"
            /\ last'.arg.ID \notin failDeregisterForIDs
            /\ last'.arg.ID \notin DOMAIN services)
             => (last'.err = NoErr /\ services' = services)
       /\ (/\ last'.op = "DeregisterByTask"
            /\ last'.arg \notin failDeregisterByTaskForIDs
            /\ \A k \in DOMAIN services :
                  /\ services[k].ID # last'.arg
                  /\ ~hasTag(services[k], "marathon-task:" \o last'.arg))
             => (last'.err = NoErr /\ services' = services)]_vars

\* C7 witness: Deregister has succeeded a second time in a row on the same id,
\* which the first call had left absent, and the table still holds entries.
C7_Witness ==
    /\ last.op = "Deregister"
    /\ last.after = "repeat"
    /\ last.err = NoErr
    /\ last.arg.ID \notin DOMAIN services
    /\ services # <<>>

\* C8: every entry that a successful Register(task, app) stored has the task's
\* id or the task's link tag, and after a successful DeregisterByTask(task.ID)
\* directly after it none of them is in the table or in the result of
\* GetServices of its name.
C8_RegisterThenDeregisterByTask ==
    [][(last'.op = "DeregisterByTask" /\ last'.after = "undo" /\ last'.err = NoErr)
         => \A i \in DOMAIN last.out :
              LET r == last.out[i]
              IN  /\ r.ID = last'.arg \/ hasTag(r, "marathon-task:" \o last'.arg)
                  /\ r.ID \notin DOMAIN services'
                  /\ \A x \in BagToSet(getServices(services', failGetServicesForNames',
                                                    consul'.Tag, r.Name).out) :
                        x.ID # r.ID]_vars

\* C8 witness: DeregisterByTask has succeeded directly after a successful
\* Register of the same task, removing the two entries Register had stored.
C8_Witness ==
    /\ last.op = "DeregisterByTask"
    /\ last.after = "undo"
    /\ last.err = NoErr
    /\ BagCardinality(last.out) >= 2

\* C9: GetAllServices returns no error and exactly one result for each entry
\* of the table, with the entry's id, name, tags and address.
C9_GetAllServicesReturnsTheTable ==
    last.op = "GetAllServices"
      => /\ last.err = NoErr
         /\ \A k \in DOMAIN services :
              CopiesIn([ID |-> services[k].ID, Name |-> services[k].Name,
                        Tags |-> services[k].Tags,
                        AgentAddress |-> services[k].Address], last.out) = 1
         /\ BagCardinality(last.out) = Cardinality(DOMAIN services)

\* C9 witness: GetAllServices has returned three or more entries, one of them
\* without the registry tag, while a name and an entry id are flagged.
C9_Witness ==
    /\ last.op = "GetAllServices"
    /\ BagCardinality(last.out) >= 3
    /\ \E x \in BagToSet(last.out) : ~hasTag(x, consul.Tag)
    /\ failGetServicesForNames # {}
    /\ failDeregisterForIDs # {}

\* The tags of a service hold a link tag, from which a task id can be read.
hasLinkTag(x) ==
    \E i \in DOMAIN x.Tags, t \in TaskIDs : x.Tags[i] = "marathon-task:" \o t

\* C10: RegisteredTaskIDs(serviceName) returns one identifier for each entry of
\* GetServices(serviceName) that has a link tag and nothing for an entry
\* that has none: no empty identifier, and as many identifiers as there are
\* matching entries with a link tag.
C10_RegisteredTaskIDsOmitsUnlinked ==
    last.op = "RegisteredTaskIDs"
      => LET found == getServices(services, failGetServicesForNames, consul.Tag,
                                  last.arg).out
         IN  /\ "" \notin BagToSet(last.out)
             /\ BagCardinality(last.out)
                  = Cardinality({x \in BagToSet(found) : hasLinkTag(x)})


\* C11: RegisterOnlyFirstRegistrationIntent always returns normally, also when
\* extraction fails or yields no intent: no call ends in a panic.
C11_RegisterOnlyFirstAlwaysReturns ==
    /\ ~aborted
    /\ last.op = "RegisterOnlyFirstRegistrationIntent" => last.err = NoErr

\* C14: RegisterOnlyFirstRegistrationIntent, when extraction yields one or more
\* registrations, stores the first under its id and changes no other key of
\* the table, whether or not the task is flagged for Register.
C14_OnlyFirstStoresOnlyTheFirst ==
    [][last'.op = "RegisterOnlyFirstRegistrationIntent"
         => LET regs == marathonTaskToConsulServices(consul, last'.arg.task,
                                                     last'.arg.app).regs
            IN  Len(regs) >= 1
                  => /\ last'.err = NoErr
                     /\ DOMAIN services' = DOMAIN services \cup {regs[1].ID}
                     /\ services'[regs[1].ID] = regs[1]
                     /\ \A k \in DOMAIN services \ {regs[1].ID} :
                          services'[k] = services[k]]_vars

\* C14 witness: the call has stored the first of two registrations, not the
\* second, for a task that is flagged for Register.
C14_Witness ==
    /\ last.op = "RegisterOnlyFirstRegistrationIntent"
    /\ last.err = NoErr
    /\ Len(last.out) = 2
    /\ last.arg.task.ID \in failRegisterForIDs
    /\ last.out[1].ID \in DOMAIN services
    /\ last.out[2].ID \notin DOMAIN services

\* C15: RegisterWithoutMarathonTaskTag changes no key but the task's id; with
\* one or more intents the task's id then holds one entry with the name, port
\* and tags of the last intent, with none the table is unchanged; whether or
\* not the task is flagged for Register.
C15_WithoutLinkStoresUnderTheTaskID ==
    [][last'.op = "RegisterWithoutMarathonTaskTag"
         => LET task == last'.arg.task
                intents == last'.arg.app.Intents
                n == Len(intents)
            IN  /\ last'.err = NoErr
                /\ \A k \in (DOMAIN services \cup DOMAIN services') \ {task.ID} :
                     /\ k \in DOMAIN services
                     /\ k \in DOMAIN services'
                     /\ services'[k] = services[k]
                /\ n = 0 => services' = services
                /\ n >= 1
                     => /\ task.ID \in DOMAIN services'
                        /\ services'[task.ID]
                             = [ID |-> task.ID, Name |-> intents[n].Name,
                                Port |-> intents[n].Port, Address |-> task.Host,
                                Tags |-> intents[n].Tags]]_vars

\* C15 witness: the call, with two intents and a task flagged for Register,
\* has left the last intent under the task's id in a table with other entries.
C15_Witness ==
    /\ last.op = "RegisterWithoutMarathonTaskTag"
    /\ Len(last.arg.app.Intents) = 2
    /\ last.arg.task.ID \in failRegisterForIDs
    /\ services[last.arg.task.ID].Name = last.arg.app.Intents[2].Name
    /\ Cardinality(DOMAIN services) >= 2

\* C16: Deregister and DeregisterByTask add no entry, change no entry that
\* stays and change no failure set; a successful Deregister removes exactly
\* the key equal to the argument's id, if present; a successful
\* DeregisterByTask keeps every entry that has neither the task's id nor the
\* task's link tag.
C16_DeregistrationRemovesOnlyItsTarget ==
    [][last'.op \in {"Deregister", "DeregisterByTask"}
         => /\ DOMAIN services' \subseteq DOMAIN services
            /\ \A k \in DOMAIN services' : services'[k] = services[k]
            /\ failSets' = failSets
            /\ (last'.op = "Deregister" /\ last'.err = NoErr)
                 => DOMAIN services' = DOMAIN services \ {last'.arg.ID}
            /\ (last'.op = "DeregisterByTask" /\ last'.err = NoErr)
                 => \A k \in DOMAIN services :
                      (/\ services[k].ID # last'.arg
                       /\ ~hasTag(services[k], "marathon-task:" \o last'.arg))
                        => k \in DOMAIN services']_vars

\* C16 witness: a successful DeregisterByTask has removed entries and has left
\* in the table an entry that carries the link tag of another task.
C16_Witness ==
    /\ last.op = "DeregisterByTask"
    /\ last.err = NoErr
    /\ last.out # EmptyBag
    /\ \E k \in DOMAIN services, t \in TaskIDs \ {last.arg} :
          hasTag(services[k], "marathon-task:" \o t)

\* C17: each method consults its own failure set only.  Unflagged in its own
\* set, DeregisterByTask removes every entry it matches, flagged for
\* Deregister or not; Deregister removes its entry, whatever tasks are
\* flagged; Register returns what extraction returns; GetServices succeeds;
\* GetAllServices and the two Register variants never return an injected error.
C17_FailureSetsAreIndependent ==
    [][/\ (last'.op = "DeregisterByTask"
             /\ last'.arg \notin failDeregisterByTaskForIDs)
            => /\ last'.err = NoErr
               /\ \A k \in DOMAIN services :
                    (\/ services[k].ID = last'.arg
                     \/ hasTag(services[k], "marathon-task:" \o last'.arg))
                      => k \notin DOMAIN services'
       /\ (last'.op = "Deregister" /\ last'.arg.ID \notin failDeregisterForIDs)
            => (last'.err = NoErr /\ last'.arg.ID \notin DOMAIN services')
       /\ (last'.op = "Register" /\ last'.arg.task.ID \notin failRegisterForIDs)
            => last'.err = marathonTaskToConsulServices(consul, last'.arg.task,
                                                        last'.arg.app).err
       /\ (last'.op = "GetServices" /\ last'.arg \notin failGetServicesForNames)
            => last'.err = NoErr
       /\ last'.op \in {"GetAllServices", "RegisterWithoutMarathonTaskTag"}
            => last'.err = NoErr
       /\ last'.op = "RegisterOnlyFirstRegistrationIntent"
            => last'.err \in {NoErr, IndexPanic}]_vars

\* C17 witness: DeregisterByTask has succeeded and removed an entry whose id is
\* flagged for Deregister, for a task that is flagged for Register.
C17_Witness ==
    /\ last.op = "DeregisterByTask"
    /\ last.err = NoErr
    /\ \E x \in BagToSet(last.out) : x.ID \in failDeregisterForIDs
    /\ last.arg \in failRegisterForIDs

\* C18: every key of the table is the id of the entry stored under it, and
\* GetAllServices returns as many entries as the table holds distinct ids.
C18_KeysAreEntryIDs ==
    /\ \A k \in DOMAIN services : services[k].ID = k
    /\ last.op = "GetAllServices"
         => BagCardinality(last.out)
              = Cardinality({services[k].ID : k \in DOMAIN services})

\* C18 witness: GetAllServices has returned the four entries of a table filled
\* by Register and by RegisterWithoutMarathonTaskTag.
C18_Witness ==
    /\ last.op = "GetAllServices"
    /\ BagCardinality(last.out) >= 4
    /\ \E k \in DOMAIN services : k \in TaskIDs
    /\ \E k \in DOMAIN services : k \notin TaskIDs

(***************************************************************************)
(* Properties of the concurrent specification.                             *)
(***************************************************************************)
\* Goroutine t holds the lock in the mode of its method and nobody holds it in
\* a conflicting mode.
holdsInMatchingMode(t) ==
    IF threads[t].op \in WriteOps
    THEN mu.w = t /\ mu.r = {}
    ELSE t \in mu.r /\ mu.w = NoHolder

\* Goroutine t holds the lock in neither mode.
holdsNothing(t) == mu.w # t /\ t \notin mu.r

\* Goroutine t stands before a statement of a lock-taking method that reads or
\* writes the table or a failure set.
atLockedAccess(t) == threads[t].at \in {"locked", "store", "delete"}

\* C12 (as stated): every access to the table and to the four failure sets,
\* read or write, is made while the lock is held in the matching mode -- the
\* write of a Fail* setter too, which needs the lock for writing -- and no
\* setter is about to write a failure set while GetServices, Register,
\* DeregisterByTask or Deregister on another goroutine is about to read it.
C12_EveryAccessUnderTheLock ==
    \A t \in Threads :
        /\ atLockedAccess(t) => holdsInMatchingMode(t)
        /\ threads[t].at = "write" => mu.w = t
        /\ \A u \in Threads : ~(races(t, u) /\ threads[u].at = "locked")

\* C12 (amended): every access made by GetAllServices, GetServices, the three
\* Register methods, DeregisterByTask and Deregister is made while the lock is
\* held in the matching mode; a Fail* setter writes its set holding the lock in
\* no mode.
C12_AccessesUnderTheLockExceptSetters ==
    \A t \in Threads :
        /\ atLockedAccess(t) => holdsInMatchingMode(t)
        /\ threads[t].at = "write" => holdsNothing(t)

\* A setter is about to write the set that a method on the other goroutine,
\* holding the lock, is about to check.
C12_Witness ==
    \E t, u \in Threads :
        /\ races(t, u)
        /\ threads[u].at = "locked"
        /\ holdsInMatchingMode(u)
        /\ holdsNothing(t)

\* Goroutine t is inside the critical section of its method: past its Lock or
\* RLock statement and not yet past its deferred unlock.
inCriticalSection(t) ==
    threads[t].at \in {"locked", "store", "delete", "unlock", "panic"}

mutating(t) == inCriticalSection(t) /\ threads[t].op \in WriteOps

querying(t) ==
    inCriticalSection(t) /\ threads[t].op \in {"GetAllServices", "GetServices"}

\* What a query that has read the table returns when it reads table now.
observed(t, table) ==
    IF threads[t].op = "GetAllServices"
    THEN allFrom(table, DOMAIN table)
    ELSE selectFrom(table, DOMAIN table, threads[t].arg, consul.Tag)

\* C13: mutations are atomic for concurrent queries.  No two mutating calls
\* are inside their critical sections at the same time, and while a
\* GetAllServices or GetServices call is inside its critical section no
\* mutating call is inside its own, so a query reads the table entirely before
\* or entirely after each mutation, never between two stores of one Register
\* or two removals of one DeregisterByTask; what a query has read is the table
\* as it still is when the query is about to return.
C13_MutationsAreAtomic ==
    /\ \A t, u \in Threads : mutating(t) /\ mutating(u) => t = u
    /\ \A t, u \in Threads : ~(mutating(t) /\ querying(u))
    /\ \A t \in Threads :
          querying(t) /\ threads[t].at = "unlock" /\ threads[t].err = NoErr
              => threads[t].out = observed(t, services)

\* Register has stored the first of its two registrations, holding the lock,
\* while a query on the other goroutine waits at its RLock.
C13_Witness ==
    \E t, u \in Threads :
        /\ threads[t].op = "Register"
        /\ threads[t].at = "store"
        /\ Len(threads[t].todo) = 1
        /\ Cardinality(DOMAIN services) = 1
        /\ mu.w = t
        /\ ~querying(u)
        /\ threads[u].op \in {"GetAllServices", "GetServices"}
        /\ threads[u].at = "lock"

\* C19: every method releases the lock on every path out of it and none takes
\* the lock while holding it -- a goroutine that is between calls, about to
\* take the lock, in the loop of RegisteredTaskIDs or in a setter holds the
\* lock in no mode -- every started call ends by returning, never by a panic,
\* and while a call is in progress and the program runs some goroutine can
\* take a step: there is no deadlock.
C19_EveryCallReturns ==
    /\ \A t \in Threads : ~inCriticalSection(t) => holdsNothing(t)
    /\ \A t \in Threads : threads[t].at # "panicked"
    /\ (~aborted /\ \E t \in Threads : threads[t].at # "idle")
           => ENABLED ConcNext
====
